---- MODULE Spec2Model ----
(***************************************************************************)
(* Model of ai_prompt.py: one invocation of the terminal utility, from     *)
(* main() through interactive setup, model listing or a provider query.    *)
(* Files are modelled by their parsed JSON value, exceptions by their      *)
(* Python class name, None by the sentinel string None.                    *)
(***************************************************************************)
EXTENDS Integers, Sequences, FiniteSets, TLC

None == "<None>"

MaxCatalog == 2

Providers == {"openai", "openrouter", "anthropic"}

ProviderOrder == <<"openai", "openrouter", "anthropic">>

DEFAULT_CONFIG ==
    [openai |-> [api_key |-> "", default_model |-> "gpt-3.5-turbo"],
     openrouter |-> [api_key |-> "",
                     default_model |-> "google/gemini-2.0-pro-exp-02-05:free"],
     anthropic |-> [api_key |-> "", default_model |-> "claude-3-opus-20240229"],
     default_provider |-> "openrouter"]

AnthropicModels ==
    <<"claude-3-opus-20240229", "claude-3-sonnet-20240229",
      "claude-3-haiku-20240307">>

MissingKeyExitStatus == 1

UncaughtExitStatus == 1

(* ---------------- the environment the program runs in ---------------- *)

StoredKeys == {"", "sk-old"}

EnteredKeys == {"", "sk-new"}

EnteredModels == {"", "model-x"}

EnteredProviders == {""} \cup Providers \cup {"bogus"}

StoredDefaults == Providers \cup {"bogus"}

KeyObjects ==
    UNION {[D -> StoredKeys] : D \in SUBSET Providers}

KeyFiles ==
    {[kind |-> "absent", val |-> <<>>], [kind |-> "corrupt", val |-> <<>>],
     [kind |-> "array", val |-> <<>>]}
    \cup {[kind |-> "object", val |-> k] : k \in KeyObjects}

ConfigFiles ==
    {[kind |-> "absent", val |-> <<>>], [kind |-> "corrupt", val |-> <<>>]}
    \cup {[kind |-> "object",
           val |-> [DEFAULT_CONFIG EXCEPT !.default_provider = d]] :
          d \in StoredDefaults}

FileSystem == [name \in {"prompt.txt"} |-> "text from file"]

ArgSets ==
    [setup : BOOLEAN, list_models : BOOLEAN,
     provider : {None} \cup Providers,
     model : {None, "model-cli"},
     prompt : {None, "", "literal text"},
     file : {None, "missing.txt", "prompt.txt"}]

Stdins ==
    {[isatty |-> TRUE, data |-> ""], [isatty |-> FALSE, data |-> "text from stdin"]}

NetOutcomes == {"raise", "http_error", "bad_shape", "ok"}

ResponseTexts == {"", "answer"}

CatalogIds == {"GPT-4o", "babbage-002", "gpt-4"}

Catalogs ==
    UNION {[1..n -> CatalogIds] : n \in 0..MaxCatalog}

(* ---------------- pure helpers ---------------- *)

Truthy(v) == v # "" /\ v # None

OrElse(a, b) == IF Truthy(a) THEN a ELSE b

(* "gpt" in id.lower(), on the identifiers of CatalogIds *)
ContainsGpt(id) == id \in {"GPT-4o", "gpt-4"}

(* Python's str ordering on the identifiers of CatalogIds *)
StrRank(id) ==
    CASE id = "GPT-4o" -> 1
      [] id = "babbage-002" -> 2
      [] id = "gpt-4" -> 3

RECURSIVE Insert(_, _)
Insert(x, s) ==
    IF s = <<>> THEN <<x>>
    ELSE IF StrRank(x) <= StrRank(Head(s)) THEN <<x>> \o s
    ELSE <<Head(s)>> \o Insert(x, Tail(s))

RECURSIVE sorted(_)
sorted(s) == IF s = <<>> THEN <<>> ELSE Insert(Head(s), sorted(Tail(s)))

RECURSIVE FilterGpt(_)
FilterGpt(s) ==
    IF s = <<>> THEN <<>>
    ELSE IF ContainsGpt(Head(s)) THEN <<Head(s)>> \o FilterGpt(Tail(s))
    ELSE FilterGpt(Tail(s))

(* keys[provider]: the value, or the exception the subscript raises *)
Subscript(keys, p) ==
    IF keys.kind = "array" THEN [exc |-> "TypeError", v |-> None]
    ELSE IF p \notin DOMAIN keys.val THEN [exc |-> "KeyError", v |-> None]
    ELSE [exc |-> "none", v |-> keys.val[p]]

(* ---------------- Configuration Store ---------------- *)

load_config_nowrite(cf) ==
    IF cf.kind = "object" THEN
        [file |-> cf, ret |-> cf.val, exc |-> "none", printed |-> <<>>]
    ELSE IF cf.kind = "corrupt" THEN
        [file |-> cf, ret |-> <<>>, exc |-> "JSONDecodeError", printed |-> <<>>]
    ELSE
        [file |-> cf, ret |-> DEFAULT_CONFIG, exc |-> "none", printed |-> <<>>]

load_config(cf) ==
    IF cf.kind = "object" THEN
        [file |-> cf, ret |-> cf.val, exc |-> "none", printed |-> <<>>]
    ELSE IF cf.kind = "corrupt" THEN
        [file |-> cf, ret |-> <<>>, exc |-> "JSONDecodeError", printed |-> <<>>]
    ELSE
        [file |-> [kind |-> "object", val |-> DEFAULT_CONFIG],
         ret |-> DEFAULT_CONFIG, exc |-> "none",
         printed |-> <<"Created default configuration">>]

save_config(c) == [kind |-> "object", val |-> c]

(* ---------------- Credential Store ---------------- *)

load_keys(kf) ==
    IF kf.kind \in {"absent", "corrupt"} THEN
        [kind |-> "object", val |-> [p \in Providers |-> ""]]
    ELSE kf

(* ---------------- Provider Adapters ---------------- *)

(* query_openai binds response = None before the try block *)
query_openai(outcome, text) ==
    IF outcome = "ok" THEN [ret |-> text, exc |-> "none", printed |-> <<>>]
    ELSE IF outcome = "raise" THEN
        [ret |-> None, exc |-> "none", printed |-> <<"Error querying OpenAI">>]
    ELSE
        [ret |-> None, exc |-> "none",
         printed |-> <<"Error querying OpenAI", "Response">>]

(* query_openrouter and query_anthropic leave response unbound when the   *)
(* POST raises; the handler's hasattr(response, 'text') then raises.      *)
query_unbound(name, outcome, text) ==
    IF outcome = "ok" THEN [ret |-> text, exc |-> "none", printed |-> <<>>]
    ELSE IF outcome = "raise" THEN
        [ret |-> None, exc |-> "UnboundLocalError", printed |-> <<name>>]
    ELSE
        [ret |-> None, exc |-> "none", printed |-> <<name, "Response">>]

query_openrouter(outcome, text) ==
    query_unbound("Error querying OpenRouter", outcome, text)

query_anthropic(outcome, text) ==
    query_unbound("Error querying Anthropic", outcome, text)

(* ---------------- Model Lister ---------------- *)

list_models_alwaysget(p, outcome, catalog) ==
    [gets |-> 1, exc |-> "none", printed |-> <<"Available models">>]

list_models(p, outcome, catalog) ==
    IF p = "anthropic" THEN
        [gets |-> 0, exc |-> "none",
         printed |-> <<"Available Anthropic models">> \o AnthropicModels]
    ELSE IF p \notin {"openai", "openrouter"} THEN
        [gets |-> 0, exc |-> "none", printed |-> <<"Unknown provider">>]
    ELSE IF outcome = "raise" THEN
        [gets |-> 1, exc |-> "UnboundLocalError",
         printed |-> <<"Error listing models">>]
    ELSE IF outcome \in {"http_error", "bad_shape"} THEN
        [gets |-> 1, exc |-> "none",
         printed |-> <<"Error listing models", "Response">>]
    ELSE IF p = "openai" THEN
        [gets |-> 1, exc |-> "none",
         printed |-> <<"Available OpenAI models">> \o sorted(FilterGpt(catalog))]
    ELSE
        [gets |-> 1, exc |-> "none",
         printed |-> <<"Available OpenRouter models">> \o catalog]

(* ---------------- Command Dispatcher helpers ---------------- *)

resolve_provider(a, c) == OrElse(a.provider, c.default_provider)

key_missing_never(k) == FALSE

key_missing(k) == ~Truthy(k)

prompt_source_file_first(a, si) ==
    IF Truthy(a.file) THEN "file"
    ELSE IF Truthy(a.prompt) THEN "literal"
    ELSE IF ~si.isatty THEN "stdin"
    ELSE "none"

prompt_source(a, si) ==
    IF Truthy(a.prompt) THEN "literal"
    ELSE IF Truthy(a.file) THEN "file"
    ELSE IF ~si.isatty THEN "stdin"
    ELSE "none"

resolve_model(a, c, p) == OrElse(a.model, c[p].default_model)

(* ---------------- Interactive Setup helpers ---------------- *)

needs_secret_always(k) == TRUE

needs_secret(k) == ~Truthy(k)

(* the loop of setup_config over the providers, from position i on *)
RECURSIVE setup_keys_loop(_, _, _, _)
setup_keys_loop(keys, typed, i, asked) ==
    IF i > Len(ProviderOrder) THEN [keys |-> keys, asked |-> asked, exc |-> "none"]
    ELSE
        LET p == ProviderOrder[i]
            s == Subscript(keys, p)
        IN  IF s.exc # "none" THEN [keys |-> keys, asked |-> asked, exc |-> s.exc]
            ELSE IF needs_secret(s.v) THEN
                setup_keys_loop([keys EXCEPT !.val[p] = typed[p]], typed, i + 1,
                                asked \cup {p})
            ELSE setup_keys_loop(keys, typed, i + 1, asked)

choose_default_always(entered, prior) == entered

choose_default(entered, prior) ==
    IF entered \in Providers THEN entered ELSE prior

(* ---------------- state ---------------- *)

VARIABLES
    configFile,   \* ~/.ai_prompt_config.json
    keysFile,     \* ~/.ai_prompt_keys.json
    args,         \* the parsed command line
    stdin,        \* standard input: a terminal, or piped data
    pc,           \* position of the process
    config,       \* main / setup_config: config
    keys,         \* main / setup_config: keys
    provider,     \* main: provider
    prompt,       \* main: prompt
    response,     \* main: response
    out,          \* lines printed
    exitStatus,   \* -1 while running
    raised,       \* the uncaught exception that ended the process
    posts,        \* requests.post calls made
    gets,         \* requests.get calls made
    net,          \* outcome of the last network call
    sent,         \* arguments the adapter was called with
    fileRead,     \* the prompt file was opened and read
    stdinRead,    \* standard input was read
    keysAtLoad,   \* setup_config: keys as load_keys returned them
    asked,        \* setup_config: providers a secret was asked for
    secrets,      \* setup_config: the secrets typed
    keysWritten,  \* setup_config wrote the credential file
    modelsAsked,  \* setup_config issued the default-model prompts
    priorDefault, \* setup_config: default_provider before the prompt
    entered       \* setup_config: text typed at the default-provider prompt

Unset == [kind |-> "unset", val |-> <<>>]

env == <<args, stdin>>

files == <<configFile, keysFile>>

netv == <<posts, gets, net, sent>>

reads == <<fileRead, stdinRead>>

setupv == <<keysAtLoad, asked, secrets, keysWritten, modelsAsked, priorDefault,
            entered>>

vars == <<configFile, keysFile, args, stdin, pc, config, keys, provider, prompt,
          response, out, exitStatus, raised, posts, gets, net, sent, fileRead,
          stdinRead, keysAtLoad, asked, secrets, keysWritten, modelsAsked,
          priorDefault, entered>>

Init ==
    /\ configFile \in ConfigFiles
    /\ keysFile \in KeyFiles
    /\ args \in ArgSets
    /\ stdin \in Stdins
    /\ pc = "main_load_config"
    /\ config = <<>>
    /\ keys = Unset
    /\ provider = None
    /\ prompt = None
    /\ response = None
    /\ out = <<>>
    /\ exitStatus = -1
    /\ raised = "none"
    /\ posts = 0
    /\ gets = 0
    /\ net = "none"
    /\ sent = <<>>
    /\ fileRead = FALSE
    /\ stdinRead = FALSE
    /\ keysAtLoad = Unset
    /\ asked = {}
    /\ secrets = <<>>
    /\ keysWritten = FALSE
    /\ modelsAsked = FALSE
    /\ priorDefault = None
    /\ entered = None

(* the process ends: normally (status 0), by sys.exit, or by an uncaught   *)
(* exception, which the interpreter turns into exit status 1               *)
Return ==
    /\ pc' = "done" /\ exitStatus' = 0 /\ raised' = "none"

Exit(status) ==
    /\ pc' = "done" /\ exitStatus' = status /\ raised' = "SystemExit"

Raise(exc) ==
    /\ pc' = "done" /\ exitStatus' = UncaughtExitStatus /\ raised' = exc

(* ---------------- main ---------------- *)

\* main: config = load_config()
MainLoadConfig ==
    /\ pc = "main_load_config"
    /\ LET r == load_config(configFile)
       IN  /\ configFile' = r.file
           /\ out' = out \o r.printed
           /\ IF r.exc # "none"
              THEN Raise(r.exc) /\ UNCHANGED config
              ELSE /\ config' = r.ret
                   /\ pc' = "parse_args"
                   /\ UNCHANGED <<exitStatus, raised>>
    /\ UNCHANGED <<keysFile, env, keys, provider, prompt, response, netv, reads,
                   setupv>>

\* main: args = parser.parse_args(args); if args.setup: setup_config(); return
ParseArgs ==
    /\ pc = "parse_args"
    /\ pc' = IF args.setup THEN "setup_load_config" ELSE "resolve_provider"
    /\ UNCHANGED <<files, env, config, keys, provider, prompt, response, out,
                   exitStatus, raised, netv, reads, setupv>>

\* main: provider = args.provider or config["default_provider"]
ResolveProvider ==
    /\ pc = "resolve_provider"
    /\ provider' = resolve_provider(args, config)
    /\ IF provider' \notin Providers
       THEN /\ out' = Append(out, "Unknown provider")
            /\ Return
       ELSE /\ pc' = "check_key"
            /\ UNCHANGED <<out, exitStatus, raised>>
    /\ UNCHANGED <<files, env, config, keys, prompt, response, netv, reads,
                   setupv>>

\* main: keys = load_keys(); if not keys[provider]: sys.exit(1);
\*       then the branch on args.list_models
CheckKey ==
    /\ pc = "check_key"
    /\ keys' = load_keys(keysFile)
    /\ LET s == Subscript(keys', provider)
       IN  IF s.exc # "none"
           THEN Raise(s.exc) /\ UNCHANGED out
           ELSE IF key_missing(s.v)
           THEN /\ out' = Append(out, "No API key configured")
                /\ Exit(MissingKeyExitStatus)
           ELSE /\ pc' = IF args.list_models THEN "list_models" ELSE "get_prompt"
                /\ UNCHANGED <<out, exitStatus, raised>>
    /\ UNCHANGED <<files, env, config, provider, prompt, response, netv, reads,
                   setupv>>

\* main: list_models(provider, config[provider]["api_key"]); return
ListModels ==
    /\ pc = "list_models"
    /\ \E outcome \in NetOutcomes, catalog \in Catalogs :
         LET r == list_models(provider, outcome, catalog)
         IN  /\ gets' = gets + r.gets
             /\ net' = IF r.gets > 0 THEN outcome ELSE net
             /\ out' = out \o r.printed
             /\ IF r.exc # "none" THEN Raise(r.exc) ELSE Return
    /\ UNCHANGED <<files, env, config, keys, provider, prompt, response, posts,
                   sent, reads, setupv>>

\* main: the prompt from the argument, the file or standard input
GetPrompt ==
    /\ pc = "get_prompt"
    /\ LET src == prompt_source(args, stdin)
       IN  IF src = "file" /\ args.file \notin DOMAIN FileSystem
           THEN /\ out' = Append(out, "Error reading file")
                /\ Return
                /\ UNCHANGED <<prompt, reads>>
           ELSE /\ prompt' = CASE src = "literal" -> args.prompt
                               [] src = "file" -> FileSystem[args.file]
                               [] src = "stdin" -> stdin.data
                               [] OTHER -> None
                /\ fileRead' = (src = "file")
                /\ stdinRead' = (src = "stdin")
                /\ IF ~Truthy(prompt')
                   THEN /\ out' = Append(out, "usage")
                        /\ Return
                   ELSE /\ pc' = "query"
                        /\ UNCHANGED <<out, exitStatus, raised>>
    /\ UNCHANGED <<files, env, config, keys, provider, response, netv, setupv>>

\* main: model = ...; response = query_<provider>(prompt, model, keys[provider]);
\*       if response: print(response)
Query ==
    /\ pc = "query"
    /\ \E outcome \in NetOutcomes, text \in ResponseTexts :
         LET model == resolve_model(args, config, provider)
             r == CASE provider = "openai" -> query_openai(outcome, text)
                    [] provider = "openrouter" -> query_openrouter(outcome, text)
                    [] OTHER -> query_anthropic(outcome, text)
         IN  /\ posts' = posts + 1
             /\ net' = outcome
             /\ sent' = [prompt |-> prompt, model |-> model,
                         api_key |-> keys.val[provider]]
             /\ response' = r.ret
             /\ IF r.exc # "none"
                THEN /\ out' = out \o r.printed
                     /\ Raise(r.exc)
                ELSE /\ out' = out \o r.printed \o
                               (IF Truthy(r.ret) THEN <<r.ret>> ELSE <<>>)
                     /\ Return
    /\ UNCHANGED <<files, env, config, keys, provider, prompt, gets, reads,
                   setupv>>

(* ---------------- setup_config ---------------- *)

\* setup_config: config = load_config()
SetupLoadConfig ==
    /\ pc = "setup_load_config"
    /\ LET r == load_config(configFile)
       IN  /\ configFile' = r.file
           /\ out' = out \o r.printed
           /\ IF r.exc # "none"
              THEN Raise(r.exc) /\ UNCHANGED config
              ELSE /\ config' = r.ret
                   /\ pc' = "setup_keys"
                   /\ UNCHANGED <<exitStatus, raised>>
    /\ UNCHANGED <<keysFile, env, keys, provider, prompt, response, netv, reads,
                   setupv>>

\* setup_config: keys = load_keys(); for provider in providers: ...
SetupKeys ==
    /\ pc = "setup_keys"
    /\ \E typed \in [Providers -> EnteredKeys] :
         LET k0 == load_keys(keysFile)
             r == setup_keys_loop(k0, typed, 1, {})
         IN  /\ keysAtLoad' = k0
             /\ keys' = r.keys
             /\ asked' = r.asked
             /\ secrets' = [p \in r.asked |-> typed[p]]
             /\ IF r.exc # "none"
                THEN Raise(r.exc)
                ELSE /\ pc' = "setup_write_keys"
                     /\ UNCHANGED <<exitStatus, raised>>
    /\ UNCHANGED <<files, env, config, provider, prompt, response, out, netv,
                   reads, keysWritten, modelsAsked, priorDefault, entered>>

\* setup_config: json.dump(keys, f) into the credential file
SetupWriteKeys ==
    /\ pc = "setup_write_keys"
    /\ keysFile' = keys
    /\ keysWritten' = TRUE
    /\ pc' = "setup_models"
    /\ UNCHANGED <<configFile, env, config, keys, provider, prompt, response,
                   out, exitStatus, raised, netv, reads, keysAtLoad, asked,
                   secrets, modelsAsked, priorDefault, entered>>

\* setup_config: the three default-model prompts
SetupModels ==
    /\ pc = "setup_models"
    /\ \E typed \in [Providers -> EnteredModels] :
         config' = [p \in DOMAIN config |->
                      IF p \in Providers
                      THEN [config[p] EXCEPT
                              !.default_model = OrElse(typed[p], @)]
                      ELSE config[p]]
    /\ modelsAsked' = TRUE
    /\ pc' = "setup_default_provider"
    /\ UNCHANGED <<files, env, keys, provider, prompt, response, out, exitStatus,
                   raised, netv, reads, keysAtLoad, asked, secrets, keysWritten,
                   priorDefault, entered>>

\* setup_config: the default-provider prompt and its validation
SetupDefaultProvider ==
    /\ pc = "setup_default_provider"
    /\ \E typed \in EnteredProviders :
         LET default_provider == OrElse(typed, config.default_provider)
         IN  /\ entered' = typed
             /\ priorDefault' = config.default_provider
             /\ config' = [config EXCEPT !.default_provider =
                             choose_default(default_provider, @)]
             /\ out' = IF default_provider \in Providers THEN out
                       ELSE Append(out, "Invalid provider")
    /\ pc' = "setup_save"
    /\ UNCHANGED <<files, env, keys, provider, prompt, response, exitStatus,
                   raised, netv, reads, keysAtLoad, asked, secrets, keysWritten,
                   modelsAsked>>

\* setup_config: save_config(config), then main returns
SetupSave ==
    /\ pc = "setup_save"
    /\ configFile' = save_config(config)
    /\ out' = Append(out, "Configuration saved")
    /\ Return
    /\ UNCHANGED <<keysFile, env, config, keys, provider, prompt, response, netv,
                   reads, setupv>>

Next ==
    \/ MainLoadConfig
    \/ ParseArgs
    \/ ResolveProvider
    \/ CheckKey
    \/ ListModels
    \/ GetPrompt
    \/ Query
    \/ SetupLoadConfig
    \/ SetupKeys
    \/ SetupWriteKeys
    \/ SetupModels
    \/ SetupDefaultProvider
    \/ SetupSave

Spec == Init /\ [][Next]_vars

TypeOK ==
    /\ pc \in {"main_load_config", "parse_args", "resolve_provider", "check_key",
               "list_models", "get_prompt", "query", "setup_load_config",
               "setup_keys", "setup_write_keys", "setup_models",
               "setup_default_provider", "setup_save", "done"}
    /\ exitStatus \in {-1, 0, 1}
    /\ posts \in 0..1 /\ gets \in 0..1

(* ---------------- properties ---------------- *)

Printed(line) == \E i \in 1..Len(out) : out[i] = line

(* the credential the store holds for the resolved provider is empty *)
StoredCredentialEmpty ==
    /\ ~args.setup
    /\ provider \in Providers
    /\ LET s == Subscript(load_keys(keysFile), provider)
       IN  s.exc = "none" /\ ~Truthy(s.v)

AllSourcesSupplied == args.file # None /\ ~stdin.isatty

(* C1: when the POST of an adapter raises a transport exception, the       *)
(* adapter returns None and no exception reaches the caller.               *)
C1_AdapterAbsorbsTransportFailure ==
    (posts = 1 /\ net = "raise") => (raised = "none" /\ response = None)

(* C2: an invocation without --setup whose resolved provider has an empty  *)
(* stored credential ends with exit status 1 by sys.exit, never reaches    *)
(* the model lister, the prompt resolution or an adapter, and makes no     *)
(* POST and no GET, whatever the other flags and the prompt sources are.   *)
C2_MissingKeyExitsWithoutNetwork ==
    StoredCredentialEmpty =>
        /\ posts = 0 /\ gets = 0
        /\ pc \in {"check_key", "done"}
        /\ pc = "done" => (exitStatus = 1 /\ raised = "SystemExit")

C2_Witness ==
    /\ StoredCredentialEmpty /\ pc = "done" /\ exitStatus = 1
    /\ args.list_models /\ args.prompt = "literal text" /\ posts = 0 /\ gets = 0

(* C3, as stated: when a literal argument, a prompt file and piped input   *)
(* are all supplied, neither the file nor standard input is read and the   *)
(* adapter receives exactly the literal.                                   *)
C3_LiteralAlwaysWins ==
    (args.prompt # None /\ AllSourcesSupplied) =>
        /\ ~fileRead /\ ~stdinRead
        /\ posts = 1 => sent.prompt = args.prompt

(* C3, amended: when a non-empty literal argument, a prompt file and piped *)
(* input are all supplied, neither the file nor standard input is read and *)
(* the adapter receives exactly the literal; in every invocation at most   *)
(* one of the file and standard input is read.                             *)
C3_NonEmptyLiteralWins ==
    /\ ~(fileRead /\ stdinRead)
    /\ (Truthy(args.prompt) /\ AllSourcesSupplied) =>
          /\ ~fileRead /\ ~stdinRead
          /\ posts = 1 => sent.prompt = args.prompt

C3_Witness ==
    /\ Truthy(args.prompt) /\ args.file = "prompt.txt" /\ ~stdin.isatty
    /\ posts = 1 /\ sent.prompt = args.prompt /\ ~fileRead /\ ~stdinRead

(* C4: whatever the credential file holds, the mapping load_keys returns   *)
(* has an entry for each of openai, openrouter and anthropic.              *)
C4_LoadKeysCoversProviders ==
    keys.kind # "unset" =>
        (keys.kind = "object" /\ Providers \subseteq DOMAIN keys.val)

(* C5: the exit status is 1 when the resolved provider has no stored       *)
(* credential, and an invocation in which the adapter or the model lister  *)
(* hits a network failure ends with exit status 0 and no uncaught          *)
(* exception.                                                              *)
C5_ExitStatus ==
    pc = "done" =>
        /\ StoredCredentialEmpty => exitStatus = 1
        /\ net \in {"raise", "http_error", "bad_shape"} =>
              (exitStatus = 0 /\ raised = "none")

(* C6: when the catalog GET for openai or openrouter raises or its         *)
(* response cannot be parsed, list_models prints a diagnostic and returns  *)
(* without raising.                                                        *)
C6_ListerNeverRaises ==
    (gets = 1 /\ net \in {"raise", "bad_shape"}) =>
        (raised = "none" /\ Printed("Error listing models"))

(* C7: load_config called with no configuration file creates the file      *)
(* with the default structure (the three providers with their default      *)
(* models, default_provider openrouter) and returns that structure.        *)
C7_LoadConfigCreatesDefault ==
    [][(pc \in {"main_load_config", "setup_load_config"}
        /\ configFile.kind = "absent") =>
          /\ configFile'.kind = "object"
          /\ configFile'.val = DEFAULT_CONFIG
          /\ config' = configFile'.val
          /\ DOMAIN config' = Providers \cup {"default_provider"}
          /\ config'.default_provider = "openrouter"
          /\ raised' = "none"]_vars

C7_Witness ==
    /\ pc = "parse_args" /\ out = <<"Created default configuration">>
    /\ configFile.kind = "object" /\ config = DEFAULT_CONFIG

(* C8: an invocation makes at most one network call: a --list-models       *)
(* invocation makes no POST, and when it reaches the lister exactly one    *)
(* GET for openai and openrouter and none for anthropic; an invocation     *)
(* without --list-models makes no GET and at most one POST.                *)
C8_AtMostOneNetworkCall ==
    /\ posts + gets <= 1
    /\ args.list_models => posts = 0
    /\ ~args.list_models => gets = 0
    /\ args.setup => posts + gets = 0
    /\ (pc = "done" /\ ~args.setup /\ args.list_models /\ provider \in Providers
        /\ raised \notin {"SystemExit", "KeyError", "TypeError"}) =>
          gets = IF provider = "anthropic" THEN 0 ELSE 1

C8_Witness ==
    /\ pc = "done" /\ args.list_models /\ provider = "anthropic"
    /\ Printed("claude-3-haiku-20240307") /\ gets = 0 /\ posts = 0

(* C9: once a value is entered at the default-provider prompt of setup,    *)
(* setup goes on to save the configuration; the default_provider it saves  *)
(* is the entered value when that is one of the three identifiers, and the *)
(* prior value when the entry is empty or is not a known identifier, in    *)
(* which last case a diagnostic is printed.                                *)
C9_DefaultProviderValidated ==
    entered # None =>
        /\ pc \in {"setup_save", "done"}
        /\ config.default_provider =
              (IF entered \in Providers THEN entered ELSE priorDefault)
        /\ (entered # "" /\ entered \notin Providers) => Printed("Invalid provider")
        /\ pc = "done" =>
              /\ exitStatus = 0 /\ raised = "none"
              /\ configFile.kind = "object"
              /\ configFile.val.default_provider =
                    (IF entered \in Providers THEN entered ELSE priorDefault)

C9_Witness ==
    /\ pc = "done" /\ entered = "bogus" /\ priorDefault = "openai"
    /\ configFile.val.default_provider = "openai" /\ Printed("Invalid provider")

(* C10: the mapping setup writes to the credential file covers the three   *)
(* providers; a provider whose credential was non-empty is not asked and   *)
(* keeps its credential, a provider whose credential was empty is asked    *)
(* and gets the secret typed; no default-model or default-provider prompt  *)
(* is issued before the credential file is written.                        *)
C10_SetupKeepsStoredSecrets ==
    /\ (modelsAsked \/ entered # None) => keysWritten
    /\ keysWritten =>
          /\ keysFile.kind = "object"
          /\ Providers \subseteq DOMAIN keysFile.val
          /\ \A p \in Providers :
                IF Truthy(keysAtLoad.val[p])
                THEN p \notin asked /\ keysFile.val[p] = keysAtLoad.val[p]
                ELSE p \in asked /\ keysFile.val[p] = secrets[p]

C10_Witness ==
    /\ keysWritten /\ pc = "setup_models"
    /\ keysAtLoad.val["openai"] = "sk-old" /\ keysFile.val["openai"] = "sk-old"
    /\ keysAtLoad.val["anthropic"] = "" /\ keysFile.val["anthropic"] = "sk-new"
    /\ asked = {"openrouter", "anthropic"}

====
